---- MODULE Spec2Model ----
(***************************************************************************)
(* Model of connectorx-python/connectorx/__init__.py: the Python binding   *)
(* over the extraction engine (read_sql, read_sql_pandas, get_meta,        *)
(* partition_sql, rewrite_conn, remove_ending_semicolon, reconstruct_arrow)*)
(* together with the engine's Partitioner and Dispatcher, which the        *)
(* binding only calls into.                                                *)
(*                                                                         *)
(* Encoding of Python values:                                              *)
(*   - a str is a sequence of characters (queries) or of tokens (conns);   *)
(*   - an optional value is a sequence of length 0 (None) or 1;            *)
(*   - the query argument is [t |-> "str" | "list" | "other", v |-> seq    *)
(*     of strings]; a bare string q is [t |-> "str", v |-> <<q>>];         *)
(*   - partition_range is <<>> (None or an empty tuple, both falsy) or     *)
(*     <<lo, hi>>.                                                         *)
(***************************************************************************)
EXTENDS Integers, Sequences, FiniteSets, TLC

\* ------------------------------------------------------------------ bounds
MaxQLen == 2
MaxList == 2
MaxConnLen == 2
MaxBound == 4
MaxNum == 4
MaxParts == 2
MaxRows == 2

\* --------------------------------------------------------------- constants
None == "None"

QChars == {"s", ";"}
ConnTokens == {"redshift", "clickhouse", "postgresql", ":"}
ReturnTypes == {"pandas", "polars", "polars2", "arrow", "arrow2", "modin", "dask"}
Modules == {"pandas", "pyarrow", "polars", "modin", "dask"}

SeqsUpTo(S, n) == UNION {[1..k -> S] : k \in 0..n}

\* ------------------------------------------------- remove_ending_semicolon
remove_ending_semicolon(query) ==
    IF Len(query) > 0 /\ query[Len(query)] = ";"
    THEN SubSeq(query, 1, Len(query) - 1)
    ELSE query

\* ------------------------------------------------------------ rewrite_conn
\* conn.split(":", 1): the pieces around the first ":" (one piece if none).
FirstColon(conn) ==
    IF \E i \in 1..Len(conn) : conn[i] = ":"
    THEN CHOOSE i \in 1..Len(conn) :
            conn[i] = ":" /\ \A j \in 1..(i - 1) : conn[j] # ":"
    ELSE 0

Contains(tokens, t) == \E i \in 1..Len(tokens) : tokens[i] = t

\* A variant that looks for the backend name in the whole connection string.
rewrite_conn_whole(conn, protocol) ==
    IF protocol = None \/ protocol = ""
    THEN IF conn # <<>> /\ FirstColon(conn) = 0
         THEN [err |-> TRUE, conn |-> conn, protocol |-> protocol]
         ELSE LET c == FirstColon(conn)
                  details == IF conn = <<>> THEN <<>>
                             ELSE SubSeq(conn, c + 1, Len(conn))
              IN  IF Contains(conn, "redshift")
                  THEN [err |-> FALSE, conn |-> <<"postgresql", ":">> \o details,
                        protocol |-> "cursor"]
                  ELSE IF Contains(conn, "clickhouse")
                  THEN [err |-> FALSE, conn |-> <<"mysql", ":">> \o details,
                        protocol |-> "text"]
                  ELSE [err |-> FALSE, conn |-> conn, protocol |-> "binary"]
    ELSE [err |-> FALSE, conn |-> conn, protocol |-> protocol]

\* err: the tuple unpacking of conn.split(":", 1) raises ValueError when a
\* non-empty conn holds no ":".
rewrite_conn(conn, protocol) ==
    IF protocol = None \/ protocol = ""
    THEN IF conn # <<>> /\ FirstColon(conn) = 0
         THEN [err |-> TRUE, conn |-> conn, protocol |-> protocol]
         ELSE LET c == FirstColon(conn)
                  backend == IF conn = <<>> THEN <<>> ELSE SubSeq(conn, 1, c - 1)
                  details == IF conn = <<>> THEN <<>>
                             ELSE SubSeq(conn, c + 1, Len(conn))
              IN  IF Contains(backend, "redshift")
                  THEN [err |-> FALSE, conn |-> <<"postgresql", ":">> \o details,
                        protocol |-> "cursor"]
                  ELSE IF Contains(backend, "clickhouse")
                  THEN [err |-> FALSE, conn |-> <<"mysql", ":">> \o details,
                        protocol |-> "text"]
                  ELSE [err |-> FALSE, conn |-> conn, protocol |-> "binary"]
    ELSE [err |-> FALSE, conn |-> conn, protocol |-> protocol]

\* ------------------------------------------------------ engine call records
\* One record shape for the four engine entry points; fields an entry point
\* does not take are left at their empty value.
EngineCall(fn, conn, rtype, query, queries, protocol, partition_query) ==
    [fn |-> fn, conn |-> conn, rtype |-> rtype, query |-> query,
     queries |-> queries, protocol |-> protocol,
     partition_query |-> partition_query]

NoResult == [kind |-> None, index |-> None]

Outcome(engine, outcome, result) ==
    [engine |-> engine, outcome |-> outcome, result |-> result]

\* try_import_module(name): ValueError when the module is not installed.
Installed(env, name) == env.missing # name

\* ---------------------------------------------------------------- read_sql
\* A one-element list is replaced by its element, stripped once.
UnwrapSingle(query) ==
    IF query.t = "list" /\ Len(query.v) = 1
    THEN [t |-> "str", v |-> <<remove_ending_semicolon(query.v[1])>>]
    ELSE query

\* The federated branch without the protocol assertion.
ReadSqlFederatedNoProtocolAssert(conn, query, return_type, protocol, partition_on, env) ==
    IF ~(partition_on = None /\ query.t = "str")
    THEN Outcome(<<>>, "AssertionError:partitioning", NoResult)
    ELSE LET q == remove_ending_semicolon(query.v[1])
             call == EngineCall("_read_sql2", conn, None, <<q>>, <<>>, None, <<>>)
         IN  Outcome(<<call>>, "ok", [kind |-> "arrow", index |-> None])

\* conn is a dict: the branch that calls _read_sql2 with the query as given.
ReadSqlFederated(conn, query, return_type, protocol, partition_on, env) ==
    IF ~(partition_on = None /\ query.t = "str")
    THEN Outcome(<<>>, "AssertionError:partitioning", NoResult)
    ELSE IF protocol # None
    THEN Outcome(<<>>, "AssertionError:protocol", NoResult)
    ELSE LET q == remove_ending_semicolon(query.v[1])
             call == EngineCall("_read_sql2", conn, None, <<q>>, <<>>, None, <<>>)
         IN  IF ~env.engine_ok
             THEN Outcome(<<call>>, "EngineError", NoResult)
             ELSE IF ~Installed(env, "pyarrow")
             THEN Outcome(<<call>>, "ModuleNotFoundError", NoResult)
             ELSE IF return_type = "pandas"
             THEN IF Installed(env, "pandas")
                  THEN Outcome(<<call>>, "ok", [kind |-> "pandas", index |-> None])
                  ELSE Outcome(<<call>>, "ModuleNotFoundError", NoResult)
             ELSE IF return_type = "polars"
             THEN IF Installed(env, "polars")
                  THEN Outcome(<<call>>, "ok", [kind |-> "polars", index |-> None])
                  ELSE Outcome(<<call>>, "ValueError:install", NoResult)
             ELSE Outcome(<<call>>, "ok", [kind |-> "arrow", index |-> None])

PartitionQuery(query, partition_on, partition_range, partition_num) ==
    [query |-> query, column |-> partition_on,
     min |-> IF partition_range # <<>> THEN <<partition_range[1]>> ELSE <<>>,
     max |-> IF partition_range # <<>> THEN <<partition_range[2]>> ELSE <<>>,
     num |-> partition_num]

\* A variant that lets a list of queries through together with partition_on.
BuildQueriesNoRaise(query, partition_on, partition_range, partition_num) ==
    IF query.t = "str"
    THEN LET q == remove_ending_semicolon(query.v[1])
         IN  IF partition_on = None
             THEN [err |-> "", queries |-> << <<q>> >>, partition_query |-> <<>>]
             ELSE [err |-> "", queries |-> <<>>,
                   partition_query |->
                     <<PartitionQuery(q, partition_on, partition_range, partition_num)>>]
    ELSE IF query.t = "list"
    THEN LET qs == [i \in 1..Len(query.v) |-> remove_ending_semicolon(query.v[i])]
         IN  [err |-> "", queries |-> <<qs>>,
              partition_query |->
                IF partition_on = None THEN <<>>
                ELSE <<PartitionQuery(IF Len(qs) > 0 THEN qs[1] ELSE <<>>, partition_on,
                                     partition_range, partition_num)>>]
    ELSE [err |-> "ValueError:query_type", queries |-> <<>>, partition_query |-> <<>>]

\* The queries / partition_query pair of a single-connection call.
BuildQueries(query, partition_on, partition_range, partition_num) ==
    IF query.t = "str"
    THEN LET q == remove_ending_semicolon(query.v[1])
         IN  IF partition_on = None
             THEN [err |-> "", queries |-> << <<q>> >>, partition_query |-> <<>>]
             ELSE [err |-> "", queries |-> <<>>,
                   partition_query |->
                     <<PartitionQuery(q, partition_on, partition_range, partition_num)>>]
    ELSE IF query.t = "list"
    THEN LET qs == [i \in 1..Len(query.v) |-> remove_ending_semicolon(query.v[i])]
         IN  IF partition_on # None
             THEN [err |-> "ValueError:partition_on_multiple",
                   queries |-> <<qs>>, partition_query |-> <<>>]
             ELSE [err |-> "", queries |-> <<qs>>, partition_query |-> <<>>]
    ELSE [err |-> "ValueError:query_type", queries |-> <<>>, partition_query |-> <<>>]

\* A variant that fetches before it rejects an unknown return_type.
ReadSqlEngineLateCheck(conn, return_type, protocol, queries, partition_query, index_col, env) ==
    LET call == EngineCall("_read_sql", conn, "arrow", <<>>, queries, protocol,
                                     partition_query)
    IN  IF return_type \in ReturnTypes
        THEN Outcome(<<call>>, "ok", [kind |-> return_type, index |-> None])
        ELSE Outcome(<<call>>, "ValueError:return_type", NoResult)

\* The return_type dispatch of a single-connection call.
ReadSqlEngine(conn, return_type, protocol, queries, partition_query, index_col, env) ==
    IF return_type \in {"modin", "dask", "pandas"}
    THEN IF ~Installed(env, "pandas")
         THEN Outcome(<<>>, "ValueError:install", NoResult)
         ELSE LET call == EngineCall("_read_sql", conn, "pandas", <<>>, queries,
                                     protocol, partition_query)
              IN  IF ~env.engine_ok
                  THEN Outcome(<<call>>, "EngineError", NoResult)
                  ELSE IF return_type = "modin" /\ ~Installed(env, "modin")
                  THEN Outcome(<<call>>, "ValueError:install", NoResult)
                  ELSE IF return_type = "dask" /\ ~Installed(env, "dask")
                  THEN Outcome(<<call>>, "ValueError:install", NoResult)
                  ELSE Outcome(<<call>>, "ok",
                               [kind |-> return_type, index |-> index_col])
    ELSE IF return_type \in {"arrow", "arrow2", "polars", "polars2"}
    THEN IF ~Installed(env, "pyarrow")
         THEN Outcome(<<>>, "ValueError:install", NoResult)
         ELSE LET rtype == IF return_type \in {"arrow2", "polars", "polars2"}
                           THEN "arrow2" ELSE "arrow"
                  call == EngineCall("_read_sql", conn, rtype, <<>>, queries,
                                     protocol, partition_query)
              IN  IF ~env.engine_ok
                  THEN Outcome(<<call>>, "EngineError", NoResult)
                  ELSE IF return_type \in {"polars", "polars2"}
                  THEN IF Installed(env, "polars")
                       THEN Outcome(<<call>>, "ok", [kind |-> "polars", index |-> None])
                       ELSE Outcome(<<call>>, "ValueError:install", NoResult)
                  ELSE Outcome(<<call>>, "ok", [kind |-> "arrow", index |-> None])
    ELSE Outcome(<<>>, "ValueError:return_type", NoResult)

\* read_sql, whole: a is the record of its arguments.
read_sql(a, env) ==
    LET query == UnwrapSingle(a.query)
    IN  IF a.conn.dict
        THEN ReadSqlFederated(a.conn.v, query, a.return_type, a.protocol,
                              a.partition_on, env)
        ELSE LET b == BuildQueries(query, a.partition_on, a.partition_range,
                                   a.partition_num)
                 rc == rewrite_conn(a.conn.v, a.protocol)
             IN  IF b.err # ""
                 THEN Outcome(<<>>, b.err, NoResult)
                 ELSE IF rc.err
                 THEN Outcome(<<>>, "ValueError:unpack", NoResult)
                 ELSE ReadSqlEngine(rc.conn, a.return_type, rc.protocol, b.queries,
                                    b.partition_query, a.index_col, env)

\* read_sql_pandas: read_sql with return_type "pandas".
read_sql_pandas(a, env) == read_sql([a EXCEPT !.return_type = "pandas"], env)

\* ---------------------------------------------------------------- get_meta
get_meta(a, env) ==
    LET rc == rewrite_conn(a.conn.v, a.protocol)
    IN  IF rc.err
        THEN Outcome(<<>>, "ValueError:unpack", NoResult)
        ELSE LET call == EngineCall("_get_meta", rc.conn, None, a.query.v,
                                    <<>>, rc.protocol, <<>>)
             IN  IF ~env.engine_ok
                 THEN Outcome(<<call>>, "EngineError", NoResult)
                 ELSE IF ~Installed(env, "pandas")
                 THEN Outcome(<<call>>, "ModuleNotFoundError", NoResult)
                 ELSE Outcome(<<call>>, "ok", [kind |-> "pandas", index |-> None])

\* ------------------------------------------------------------- Partitioner
\* The engine's partition(query, column, num, range): one range predicate
\* per SubQuery. lo is inclusive; hi is exclusive unless hi_incl.
CeilDiv(a, b) == (a + b - 1) \div b

RangePredicate(lo, hi, hi_incl) == [lo |-> lo, hi |-> hi, hi_incl |-> hi_incl]

\* clamp: the last partition ends at max (with <=) instead of being
\* unbounded above; the design leaves the choice between the two open.
PartitionRanges(min, max, num, clamp) ==
    LET width == CeilDiv(max - min + 1, num)
    IN  IF num = 1
        THEN <<RangePredicate(<<>>, <<>>, FALSE)>>
        ELSE [i \in 1..num |->
                IF i = 1
                THEN RangePredicate(<<>>, <<min + width>>, FALSE)
                ELSE IF i < num
                THEN RangePredicate(<<min + (i - 1) * width>>, <<min + i * width>>, FALSE)
                ELSE RangePredicate(<<min + (i - 1) * width>>,
                                    IF clamp THEN <<max>> ELSE <<>>, clamp)]

\* The row value v satisfies the predicate p.
Satisfies(v, p) ==
    /\ p.lo = <<>> \/ v >= p.lo[1]
    /\ p.hi = <<>> \/ (IF p.hi_incl THEN v <= p.hi[1] ELSE v < p.hi[1])

\* The engine's partition entry point on a PartitionSpec pq: the bounds are
\* pq's, or the discovered ones (env.found) when pq gives none.
Partition(pq, env) ==
    LET bounds == IF pq.min # <<>> /\ pq.max # <<>>
                  THEN <<pq.min[1], pq.max[1]>> ELSE env.found
    IN  IF pq.num = <<>> \/ (pq.num # <<>> /\ pq.num[1] < 1)
        THEN [outcome |-> "ConfigError", bounds |-> <<>>, subqueries |-> <<>>]
        ELSE IF ~env.engine_ok \/ bounds[1] > bounds[2]
        THEN [outcome |-> "PartitionError", bounds |-> <<>>, subqueries |-> <<>>]
        ELSE [outcome |-> "ok", bounds |-> bounds,
              subqueries |-> PartitionRanges(bounds[1], bounds[2], pq.num[1], env.clamp)]

\* ----------------------------------------------------------- partition_sql
\* A variant that passes the lower end of partition_range as max too.
partition_sql_min_twice(a, env) ==
    LET r == a.partition_range
        pq == PartitionQuery(a.query.v[1], a.partition_on,
                             IF r # <<>> THEN <<r[1], r[1]>> ELSE r, a.partition_num)
    IN  EngineCall("_partition_sql", a.conn.v, None, <<>>, <<>>, None, <<pq>>)

\* partition_sql: the PartitionSpec built from the arguments, handed to the
\* engine's _partition_sql with the connection as given.
partition_sql(a, env) ==
    LET pq == PartitionQuery(a.query.v[1], a.partition_on, a.partition_range,
                             a.partition_num)
    IN  EngineCall("_partition_sql", a.conn.v, None, <<>>, <<>>, None, <<pq>>)

\* ------------------------------------------------------------------- inputs
Strs == SeqsUpTo(QChars, MaxQLen)
\* Elements of the lists of two or more queries: with and without a
\* trailing semicolon.
ListElems == {<<"s">>, <<"s", ";">>}
StrQuery(q) == [t |-> "str", v |-> <<q>>]
ListQuery(l) == [t |-> "list", v |-> l]
OtherQuery == [t |-> "other", v |-> <<>>]
Queries ==
    {StrQuery(q) : q \in Strs}
    \cup {ListQuery(<<q>>) : q \in Strs}
    \cup {ListQuery(l) : l \in SeqsUpTo(ListElems, MaxList) \ {<<e>> : e \in ListElems}}
    \cup {OtherQuery}

ConnStrs == SeqsUpTo(ConnTokens, MaxConnLen)
StrConn(c) == [dict |-> FALSE, v |-> c]
Postgres == StrConn(<<"postgresql", ":">>)
Federated == [dict |-> TRUE, v |-> <<"postgresql", ":">>]

Ranges == {<<>>} \cup ((0..MaxBound) \X (0..MaxBound))
Nums == {<<>>} \cup {<<n>> : n \in 0..MaxNum}
Found == {r \in (0..MaxBound) \X (0..MaxBound) : r[1] <= r[2]}

DefaultEnv == [missing |-> None, engine_ok |-> TRUE, found |-> <<0, 1>>, clamp |-> FALSE]
ModuleEnvs == {[DefaultEnv EXCEPT !.missing = m, !.engine_ok = ok] :
                 m \in Modules \cup {None}, ok \in BOOLEAN}

Args(conn, query, return_type, protocol, partition_on, partition_range, partition_num, index_col) ==
    [conn |-> conn, query |-> query, return_type |-> return_type,
     protocol |-> protocol, partition_on |-> partition_on,
     partition_range |-> partition_range, partition_num |-> partition_num,
     index_col |-> index_col]

NoArgs == Args(Postgres, OtherQuery, None, None, None, <<>>, <<>>, None)

\* -------------------------------------------------------------------- state
VARIABLES
    op,         \* the binding function called, "idle" between calls
    args,       \* its arguments
    env,        \* installed modules and the backend's behaviour in the call
    engine,     \* the engine calls made by the call, in order
    outcome,    \* "ok" or the exception the call ended with
    result,     \* the value returned: its kind and index column
    partition,  \* the Partitioner's answer to a partition_sql call
    phase,      \* the Dispatcher: "idle", "running", "returned", "rebuilt"
    nparts,     \* number of SubQueries of the call
    names,      \* column names of the result
    source,     \* source[i]: number of rows SubQuery i yields
    worker,     \* worker[i]: "pending", "streaming", "done", "failed", "cancelled"
    conn_open,  \* conn_open[i]: worker i's connection is open
    chunk,      \* chunk[i]: the rows worker i has decoded, in order
    arrived,    \* ordinals of the finished workers, in completion order
    cancel,     \* set at the first worker failure
    returned,   \* what the engine call returned: its kind and the chunks
    table       \* the Table the binding rebuilt from the chunks

bvars == <<op, args, env, engine, outcome, result, partition>>
dvars == <<phase, nparts, names, source, worker, conn_open, chunk, arrived,
           cancel, returned, table>>
vars == <<op, args, env, engine, outcome, result, partition, phase, nparts,
          names, source, worker, conn_open, chunk, arrived, cancel, returned, table>>

NoPartition == [outcome |-> None, bounds |-> <<>>, subqueries |-> <<>>]

NoCall == [kind |-> None, names |-> <<>>, ptrs |-> <<>>]
NoTable == [built |-> FALSE, names |-> <<>>, batches |-> <<>>]

InitBinding ==
    /\ op = "idle"
    /\ args = NoArgs
    /\ env = DefaultEnv
    /\ engine = <<>>
    /\ outcome = None
    /\ result = NoResult
    /\ partition = NoPartition

InitDispatch ==
    /\ phase = "idle"
    /\ nparts = 0
    /\ names = <<>>
    /\ source = <<>>
    /\ worker = <<>>
    /\ conn_open = <<>>
    /\ chunk = <<>>
    /\ arrived = <<>>
    /\ cancel = FALSE
    /\ returned = NoCall
    /\ table = NoTable

Init == InitBinding /\ InitDispatch

Finish(name, a, e, o) ==
    /\ op' = name
    /\ args' = a
    /\ env' = e
    /\ engine' = o.engine
    /\ outcome' = o.outcome
    /\ result' = o.result
    /\ partition' = NoPartition
    /\ UNCHANGED dvars

\* The calls explored: every query shape against every return type,
\* protocol, partitioning switch and environment; every connection string
\* against every protocol; every partition range and count.
ReadSql ==
    /\ op = "idle"
    /\ \/ \E c \in {Postgres, Federated, StrConn(<<"redshift", ":">>),
                      StrConn(<<"postgresql">>)},
             q \in Queries, rt \in ReturnTypes \cup {"bogus"},
             pr \in {None, "", "text"}, pon \in {None, "c"},
             pn \in {<<>>, <<2>>}, e \in ModuleEnvs :
             LET a == Args(c, q, rt, pr, pon, <<>>, pn, None)
             IN  Finish("read_sql", a, e, read_sql(a, e))
       \/ \E c \in {StrConn(x) : x \in ConnStrs} \cup {Federated},
             rt \in {"pandas", "arrow"}, pr \in {None, "", "text"},
             pon \in {None, "c"} :
             LET a == Args(c, StrQuery(<<"s", ";">>), rt, pr, pon, <<>>, <<2>>, None)
             IN  Finish("read_sql", a, DefaultEnv, read_sql(a, DefaultEnv))
       \/ \E pon \in {None, "c"}, r \in Ranges, pn \in Nums, ic \in {None, "c"} :
             LET a == Args(Postgres, StrQuery(<<"s">>), "pandas", None, pon, r, pn, ic)
             IN  Finish("read_sql", a, DefaultEnv, read_sql(a, DefaultEnv))

ReadSqlPandas ==
    /\ op = "idle"
    /\ \E c \in {Postgres, Federated}, q \in Queries, pr \in {None, "text"},
          pon \in {None, "c"}, ic \in {None, "c"} :
          LET a == Args(c, q, "pandas", pr, pon, <<>>, <<2>>, ic)
          IN  Finish("read_sql_pandas", a, DefaultEnv, read_sql_pandas(a, DefaultEnv))

GetMeta ==
    /\ op = "idle"
    /\ \E x \in ConnStrs, q \in Strs, pr \in {None, "", "text"},
          m \in {None, "pandas"}, ok \in BOOLEAN :
          LET a == Args(StrConn(x), StrQuery(q), None, pr, None, <<>>, <<>>, None)
              e == [DefaultEnv EXCEPT !.missing = m, !.engine_ok = ok]
          IN  Finish("get_meta", a, e, get_meta(a, e))

PartitionSql ==
    /\ op = "idle"
    /\ \E r \in Ranges, pn \in Nums, ok \in BOOLEAN, f \in Found, cl \in BOOLEAN :
          LET a == Args(Postgres, StrQuery(<<"s">>), None, None, "c", r, pn, None)
              e == [DefaultEnv EXCEPT !.engine_ok = ok, !.found = f, !.clamp = cl]
              pcall == partition_sql(a, e)
              p == Partition(pcall.partition_query[1], e)
          IN  /\ op' = "partition_sql"
              /\ args' = a
              /\ env' = e
              /\ engine' = <<pcall>>
              /\ outcome' = p.outcome
              /\ result' = NoResult
              /\ partition' = p
              /\ UNCHANGED dvars

\* The caller goes on to its next call.
Return ==
    /\ op # "idle"
    /\ op' = "idle"
    /\ args' = NoArgs
    /\ env' = DefaultEnv
    /\ engine' = <<>>
    /\ outcome' = None
    /\ result' = NoResult
    /\ partition' = NoPartition
    /\ UNCHANGED dvars

Next == ReadSql \/ ReadSqlPandas \/ GetMeta \/ PartitionSql \/ Return

Spec == Init /\ [][Next]_vars

\* --------------------------------------------------------------- Dispatcher
\* One worker and one connection per SubQuery; workers share no state.
\* Ordinals are 1..nparts here (0..num-1 in the design).
Terminal(w) == w \in {"done", "failed", "cancelled"}

\* The dispatcher returns before the outstanding workers have stopped.
CanReturnEarly == \E i \in 1..nparts : worker[i] = "failed"

\* The barrier: the call returns once every worker is in a terminal state.
CanReturn == \A i \in 1..nparts : Terminal(worker[i])

\* The per-partition chunks, by partition ordinal.
Collect == [i \in 1..nparts |-> chunk[i]]

\* A rebuild that stacks the record batches last chunk first.
reconstruct_arrow_reversed(infos) ==
    LET ns == infos[1]
        ptrs == infos[2]
    IN  IF Len(ns) = 0
        THEN [built |-> TRUE, names |-> <<>>, batches |-> <<>>]
        ELSE [built |-> TRUE, names |-> ns,
              batches |-> [k \in 1..Len(ptrs) |-> ptrs[Len(ptrs) + 1 - k]]]

\* reconstruct_arrow((names, ptrs)): one record batch per chunk, in order.
reconstruct_arrow(infos) ==
    LET ns == infos[1]
        ptrs == infos[2]
    IN  IF Len(ns) = 0
        THEN [built |-> TRUE, names |-> <<>>, batches |-> <<>>]
        ELSE [built |-> TRUE, names |-> ns,
              batches |-> [k \in 1..Len(ptrs) |-> ptrs[k]]]

StartCall ==
    /\ phase = "idle"
    /\ \E n \in 1..MaxParts, ns \in {<<>>, <<"id">>} :
        \E src \in [1..n -> 0..MaxRows] :
            /\ nparts' = n
            /\ names' = ns
            /\ source' = src
            /\ worker' = [i \in 1..n |-> "pending"]
            /\ conn_open' = [i \in 1..n |-> FALSE]
            /\ chunk' = [i \in 1..n |-> <<>>]
    /\ phase' = "running"
    /\ arrived' = <<>>
    /\ cancel' = FALSE
    /\ returned' = NoCall
    /\ table' = NoTable
    /\ UNCHANGED bvars

Connect(i) ==
    /\ phase = "running" /\ worker[i] = "pending" /\ ~cancel
    /\ worker' = [worker EXCEPT ![i] = "streaming"]
    /\ conn_open' = [conn_open EXCEPT ![i] = TRUE]
    /\ UNCHANGED <<bvars, phase, nparts, names, source, chunk, arrived, cancel,
                   returned, table>>

ConnectFail(i) ==
    /\ phase = "running" /\ worker[i] = "pending" /\ ~cancel
    /\ worker' = [worker EXCEPT ![i] = "failed"]
    /\ cancel' = TRUE
    /\ UNCHANGED <<bvars, phase, nparts, names, source, conn_open, chunk, arrived,
                   returned, table>>

\* One more row of SubQuery i decoded into its chunk, in source order.
Fetch(i) ==
    /\ phase = "running" /\ worker[i] = "streaming" /\ ~cancel
    /\ Len(chunk[i]) < source[i]
    /\ chunk' = [chunk EXCEPT ![i] = Append(@, <<i, Len(@) + 1>>)]
    /\ UNCHANGED <<bvars, phase, nparts, names, source, worker, conn_open, arrived,
                   cancel, returned, table>>

StreamFail(i) ==
    /\ phase = "running" /\ worker[i] = "streaming" /\ ~cancel
    /\ worker' = [worker EXCEPT ![i] = "failed"]
    /\ conn_open' = [conn_open EXCEPT ![i] = FALSE]
    /\ cancel' = TRUE
    /\ UNCHANGED <<bvars, phase, nparts, names, source, chunk, arrived, returned, table>>

Complete(i) ==
    /\ phase = "running" /\ worker[i] = "streaming" /\ ~cancel
    /\ Len(chunk[i]) = source[i]
    /\ worker' = [worker EXCEPT ![i] = "done"]
    /\ conn_open' = [conn_open EXCEPT ![i] = FALSE]
    /\ arrived' = Append(arrived, i)
    /\ UNCHANGED <<bvars, phase, nparts, names, source, chunk, cancel, returned, table>>

\* An outstanding worker sees the stop signal and closes its connection.
Stop(i) ==
    /\ phase = "running" /\ cancel
    /\ worker[i] \in {"pending", "streaming"}
    /\ worker' = [worker EXCEPT ![i] = "cancelled"]
    /\ conn_open' = [conn_open EXCEPT ![i] = FALSE]
    /\ UNCHANGED <<bvars, phase, nparts, names, source, chunk, arrived, cancel,
                   returned, table>>

\* The engine call returns: the first failure, or the chunks by ordinal.
EngineReturn ==
    /\ phase = "running"
    /\ CanReturn
    /\ phase' = "returned"
    /\ returned' = IF \E i \in 1..nparts : worker[i] = "failed"
               THEN [kind |-> "error", names |-> <<>>, ptrs |-> <<>>]
               ELSE [kind |-> "ok", names |-> names, ptrs |-> Collect]
    /\ UNCHANGED <<bvars, nparts, names, source, worker, conn_open, chunk, arrived,
                   cancel, table>>

\* The binding rebuilds the Table from what the engine returned.
Rebuild ==
    /\ phase = "returned"
    /\ returned.kind = "ok"
    /\ phase' = "rebuilt"
    /\ table' = reconstruct_arrow(<<returned.names, returned.ptrs>>)
    /\ UNCHANGED <<bvars, nparts, names, source, worker, conn_open, chunk, arrived,
                   cancel, returned>>

NextCall ==
    /\ phase = "rebuilt" \/ (phase = "returned" /\ returned.kind = "error")
    /\ phase' = "idle"
    /\ nparts' = 0
    /\ names' = <<>>
    /\ source' = <<>>
    /\ worker' = <<>>
    /\ conn_open' = <<>>
    /\ chunk' = <<>>
    /\ arrived' = <<>>
    /\ cancel' = FALSE
    /\ returned' = NoCall
    /\ table' = NoTable
    /\ UNCHANGED bvars

NextDispatch ==
    \/ StartCall
    \/ \E i \in 1..nparts : Connect(i)
    \/ \E i \in 1..nparts : ConnectFail(i)
    \/ \E i \in 1..nparts : Fetch(i)
    \/ \E i \in 1..nparts : StreamFail(i)
    \/ \E i \in 1..nparts : Complete(i)
    \/ \E i \in 1..nparts : Stop(i)
    \/ EngineReturn
    \/ Rebuild
    \/ NextCall

SpecDispatch == Init /\ [][NextDispatch]_vars

\* ================================================================== claims
IsRead == op \in {"read_sql", "read_sql_pandas"}
IsListQuery == args.query.t = "list"
EngineIndices == 1..Len(engine)
\* conn.split(":", 1)[0] of the caller's connection string
Backend(conn) == IF FirstColon(conn) = 0 THEN <<>> ELSE SubSeq(conn, 1, FirstColon(conn) - 1)

\* The engine is never handed both a list of queries and a partition_query.
NeverBoth ==
    \A k \in EngineIndices :
        ~(engine[k].queries # <<>> /\ engine[k].partition_query # <<>>)

\* C1 as stated: on a single connection, a list of queries of any length
\* >= 1 together with partition_on fails (with the configuration error, or
\* an earlier ValueError) without reaching the engine, and the engine never
\* gets both queries and partition_query.
C1_ListOfAnyLengthRejected ==
    /\ (IsRead /\ ~args.conn.dict /\ IsListQuery /\ Len(args.query.v) >= 1
            /\ args.partition_on # None)
        => (outcome \in {"ValueError:partition_on_multiple", "ValueError:unpack",
                         "ValueError:install", "ValueError:return_type"}
            /\ engine = <<>>)
    /\ NeverBoth

\* C1 amended: on a single connection, a list of two or more queries
\* together with partition_on ends in the configuration error before any
\* engine call; a one-element list with partition_on is partitioned like
\* the bare string; the engine never gets both queries and partition_query.
C1_MultiQueryListRejected ==
    /\ (IsRead /\ ~args.conn.dict /\ IsListQuery /\ Len(args.query.v) >= 2
            /\ args.partition_on # None)
        => (outcome = "ValueError:partition_on_multiple" /\ engine = <<>>)
    /\ (IsRead /\ ~args.conn.dict /\ IsListQuery /\ Len(args.query.v) = 1
            /\ args.partition_on # None)
        => (outcome # "ValueError:partition_on_multiple"
            /\ \A k \in EngineIndices :
                  /\ engine[k].queries = <<>>
                  /\ engine[k].partition_query # <<>>
                  /\ engine[k].partition_query[1].column = args.partition_on)
    /\ NeverBoth

C1_Witness ==
    /\ op = "read_sql" /\ ~args.conn.dict
    /\ IsListQuery /\ Len(args.query.v) = 2
    /\ args.partition_on # None
    /\ outcome = "ValueError:partition_on_multiple"

\* C2: a federated call that reaches _read_sql2 passes exactly one query
\* string and was made with partition_on None and protocol None; a federated
\* call with partition_on, with a list of more than one query or with a
\* protocol fails before any engine call.
C2_FederatedConstraints ==
    (IsRead /\ args.conn.dict) =>
        /\ \A k \in EngineIndices :
              /\ engine[k].fn = "_read_sql2"
              /\ Len(engine[k].query) = 1
              /\ engine[k].queries = <<>> /\ engine[k].partition_query = <<>>
              /\ args.query.t = "str" \/ (IsListQuery /\ Len(args.query.v) = 1)
              /\ args.partition_on = None
              /\ args.protocol = None
              /\ engine[k].protocol = None
        /\ (args.partition_on # None \/ (IsListQuery /\ Len(args.query.v) > 1)
                \/ args.protocol # None)
            => (engine = <<>>
                /\ outcome \in {"AssertionError:partitioning", "AssertionError:protocol"})

C2_Witness ==
    /\ op = "read_sql" /\ args.conn.dict
    /\ Len(engine) = 1 /\ engine[1].fn = "_read_sql2"
    /\ IsListQuery
    /\ outcome = "ok"

\* C3: a read_sql call that ends in a parameter error (list with
\* partition_on, query neither str nor list, unsupported return_type, a
\* violated federated constraint) has made no engine call.
ParameterErrors ==
    {"ValueError:partition_on_multiple", "ValueError:query_type",
     "ValueError:return_type", "AssertionError:partitioning",
     "AssertionError:protocol"}

C3_ParameterErrorsBeforeEngine ==
    (IsRead /\ outcome \in ParameterErrors) => engine = <<>>

C3_Witness ==
    /\ op = "read_sql" /\ ~args.conn.dict
    /\ args.return_type \notin ReturnTypes
    /\ outcome = "ValueError:return_type"
    /\ engine = <<>>

\* C4 as stated: every PartitionSpec handed to the engine has an integer
\* num >= 1 and, when min and max are both present, min <= max.
C4_PartitionSpecInvariant ==
    \A k \in EngineIndices :
        engine[k].partition_query # <<>> =>
            LET pq == engine[k].partition_query[1]
            IN  /\ pq.num # <<>>
                /\ pq.num[1] >= 1
                /\ (pq.min # <<>> /\ pq.max # <<>>) => pq.min[1] <= pq.max[1]

\* C5: for valid (min, max, num) the Partitioner yields num predicates, every
\* value of [min, max] satisfies exactly one of them, and no value at all
\* satisfies two; with the last partition unbounded above every value
\* satisfies exactly one.
RowValues == (0 - 1)..(MaxBound + 1)
Matching(v) ==
    {i \in 1..Len(partition.subqueries) : Satisfies(v, partition.subqueries[i])}
CallerBounds ==
    IF args.partition_range # <<>> THEN args.partition_range ELSE env.found

ExpectedChunks == [i \in 1..nparts |-> [k \in 1..source[i] |-> <<i, k>>]]

C6_OrdinalOrder ==
    /\ (phase \in {"returned", "rebuilt"} /\ returned.kind = "ok")
        => returned.ptrs = ExpectedChunks
    /\ phase = "rebuilt"
        => /\ table.built
           /\ table.batches = IF names = <<>> THEN <<>> ELSE ExpectedChunks

C6_Witness ==
    /\ phase = "rebuilt"
    /\ nparts = 2 /\ names # <<>>
    /\ arrived = <<2, 1>>
    /\ source[1] = 2 /\ source[2] = 1

\* C7: when a worker has failed, the call ends with the error and no Table,
\* and at its return every worker is terminal and every connection closed.
C7_FailFast ==
    (phase \in {"returned", "rebuilt"} /\ \E i \in 1..nparts : worker[i] = "failed")
        => /\ phase = "returned"
           /\ returned.kind = "error" /\ returned.ptrs = <<>>
           /\ ~table.built
           /\ \A i \in 1..nparts : Terminal(worker[i]) /\ ~conn_open[i]

C7_Witness ==
    /\ phase = "returned"
    /\ nparts = 2
    /\ worker[1] = "cancelled" /\ chunk[1] # <<>>
    /\ worker[2] = "failed" /\ chunk[2] # <<>>

\* C8 as stated: with no protocol given, the engine gets "binary", except
\* for redshift connection strings, for which it gets "cursor".
GivenToEngine(k) == engine[k].fn \in {"_read_sql", "_get_meta"}

C9_SingletonListAsString ==
    (op = "read_sql" /\ IsListQuery /\ Len(args.query.v) = 1) =>
        engine = read_sql([args EXCEPT !.query = StrQuery(args.query.v[1])], env).engine

\* C10 as stated: a read_sql call with an unsupported return_type ends in
\* an error (ValueError, or the assertion of an earlier federated check)
\* and returns no result, on a single and on a federated connection; the
\* backend answering and every module being installed.
C10_UnsupportedReturnTypeRejected ==
    (op = "read_sql" /\ args.return_type \notin ReturnTypes
        /\ env.engine_ok /\ env.missing = None) =>
        /\ outcome \in {"ValueError:return_type", "ValueError:partition_on_multiple",
                         "ValueError:query_type", "ValueError:unpack",
                         "ValueError:install", "AssertionError:partitioning",
                         "AssertionError:protocol"}
        /\ result = NoResult

====
